---------------------------- MODULE Spec2Model ----------------------------
(***************************************************************************)
(* A model of the exam extraction pipeline of src/extract_pdf_data.py.     *)
(*                                                                         *)
(* Text is a sequence of one-character strings.  The fullwidth characters  *)
(* of the answer document are written by name: "FW_A" is U+FF21, "FW_B"    *)
(* U+FF22, "FW_C" U+FF23, "FW_D" U+FF24 and "FW_SP" U+3000.  The script    *)
(* forms produced by the translation tables are written "sub0".."sub9",    *)
(* "sup0".."sup9", "sup+" and "sup-".                                      *)
(*                                                                         *)
(* Glyph coordinates and sizes (page.chars) are integers in tenths of a    *)
(* PDF point, so 3.5 is 35 and 2.0 is 20; the comparisons with             *)
(* mode_size * 0.5 and mode_size * 0.85 are cross-multiplied.  Word and    *)
(* image coordinates (page.extract_words, page.images) are in whole        *)
(* points.                                                                 *)
(***************************************************************************)
EXTENDS Integers, Sequences, FiniteSets, TLC

VARIABLES
    pc,                 \* position in main and in the functions it calls
    pdf,                \* TEST.pdf: the pages the glyph source returns
    ans_text,           \* the text extracted from ANWSER.pdf
    image_meta,         \* main: image_meta
    answer_map,         \* main: answer_map (<<>> until parse_answers returns)
    error,              \* the exception that ended the run ("" for none)
    figure_dir,         \* whether the directory FIGURE_DIR exists
    files,              \* the figure files on disk: number -> cropped region
    page_idx,           \* parse_questions_with_images: page_idx (0-based)
    question_locs,      \* parse_questions_with_images: question_locs
    loc_i,              \* parse_questions_with_images: i of the mapping loop (1-based)
    rows,               \* parse_questions_with_images: rows
    log,                \* what the run printed about figures and missing numbers
    related_imgs,       \* parse_questions_with_images: related_imgs
    bbox,               \* parse_questions_with_images: bbox
    q_to_fig,           \* parse_questions_with_images: q_to_fig
    full_text,          \* the text handed to parse_questions
    df,                 \* the table (a sequence of rows)
    excel,              \* the rows written to OUTPUT_EXCEL_PATH (<<>> until written)
    set_order,          \* the iteration order of a set of sizes in this build of Python
    prev_run            \* what the run before this one, on the same files, ended with

VARIABLES
    xpage,              \* extract_text_with_subscripts: the page being read (1-based)
    pages_text,         \* extract_text_with_subscripts: full_text, one text per page
    mode_size,          \* extract_text_with_subscripts: mode_size
    sorted_chars,       \* extract_text_with_subscripts: sorted_chars
    walk_i,             \* position of the line-grouping loop in sorted_chars
    lines,              \* extract_text_with_subscripts: lines
    current_line_chars, \* extract_text_with_subscripts: current_line_chars
    current_line_top,   \* extract_text_with_subscripts: current_line_top
    line_i,             \* position of the loop over lines
    char_i,             \* position of the loop over line_chars
    line_str,           \* extract_text_with_subscripts: line_str
    prev_char,          \* extract_text_with_subscripts: prev_char (NoChar for None)
    page_content        \* extract_text_with_subscripts: page_content

VARIABLES
    quiz_df,            \* quiz_app.py main: df, the dataset load_data returned
    quiz_started,       \* st.session_state.quiz_started
    questions,          \* st.session_state.questions
    current_index,      \* st.session_state.current_index (0-based)
    user_answers,       \* st.session_state.user_answers: index -> option
    score,              \* st.session_state.score
    finished,           \* st.session_state.finished
    feedback_mode       \* st.session_state.feedback_mode

mainVars == <<pc, pdf, ans_text, image_meta, answer_map, error, excel, set_order>>
figVars == <<figure_dir, files, page_idx, question_locs, loc_i, rows, log,
            related_imgs, bbox, q_to_fig>>
tableVars == <<full_text, df>>
extractVars == <<xpage, pages_text, mode_size, sorted_chars, walk_i, lines,
                 current_line_chars, current_line_top, line_i, char_i, line_str,
                 prev_char, page_content>>
quizVars == <<quiz_df, quiz_started, questions, current_index, user_answers, score,
              finished, feedback_mode>>
vars == <<mainVars, figVars, tableVars, extractVars, prev_run, quizVars>>

---------------------------------------------------------------------------
(* Bounds of the model and constants of the program.                       *)

\* Answer documents hold between NumAnswers - AnswerSlack and
\* NumAnswers + AnswerSlack repetitions of a unit, then up to AnswerSlack more.
AnswerSlack == 2

\* tokens[:80], len(answers) != 80, range(80)
NumAnswers == 80

\* 1 <= n <= 80, range(1, 81), 1 <= q_num <= 80
MaxQuestionNumber == 80

---------------------------------------------------------------------------
(* Sequences and text.                                                     *)

Min(a, b) == IF a < b THEN a ELSE b

Max(a, b) == IF a > b THEN a ELSE b

Abs(a) == IF a < 0 THEN -a ELSE a

Range(s) == {s[i] : i \in DOMAIN s}

\* s[:n]
Take(s, n) == SubSeq(s, 1, Min(n, Len(s)))

\* unit repeated n times
Rep(unit, n) == [i \in 1..(n * Len(unit)) |-> unit[((i - 1) % Len(unit)) + 1]]

\* sep.join(parts)
RECURSIVE Join(_, _)
Join(parts, sep) ==
    IF Len(parts) = 0 THEN <<>>
    ELSE IF Len(parts) = 1 THEN parts[1]
    ELSE parts[1] \o sep \o Join(Tail(parts), sep)

\* The sequences over S of length at most n.
SeqUpTo(S, n) == UNION {[1..k -> S] : k \in 0..n}

Digits == {"0", "1", "2", "3", "4", "5", "6", "7", "8", "9"}

DigitValue(c) ==
    CASE c = "0" -> 0 [] c = "1" -> 1 [] c = "2" -> 2 [] c = "3" -> 3
      [] c = "4" -> 4 [] c = "5" -> 5 [] c = "6" -> 6 [] c = "7" -> 7
      [] c = "8" -> 8 [] c = "9" -> 9

\* int(num_str)
RECURSIVE ParseInt(_)
ParseInt(ds) ==
    IF Len(ds) = 0 THEN 0
    ELSE 10 * ParseInt(SubSeq(ds, 1, Len(ds) - 1)) + DigitValue(ds[Len(ds)])

\* \s of the re module, over the characters of the model
IsSpace(c) == c \in {" ", "\n", "\r", "FW_SP"}

\* \w of the re module, over the characters of the model: letters, digits, "_"
IsWord(c) == ~IsSpace(c) /\ c \notin {".", ",", "+", "-"}

---------------------------------------------------------------------------
(* parse_answers                                                           *)

\* fw_map
FwMap(c) ==
    CASE c = "FW_A" -> "A" [] c = "FW_B" -> "B" [] c = "FW_C" -> "C"
      [] c = "FW_D" -> "D" [] c = "FW_SP" -> " " [] OTHER -> c

\* answer_pdf_text.translate(fw_map)
Normalize(text) == [i \in DOMAIN text |-> FwMap(text[i])]

AnswerLetters == {"A", "B", "C", "D"}

\* \b before position i and after it: the letter at i is a word of its own
WordBoundaryAround(s, i) ==
    /\ (i = 1 \/ ~IsWord(s[i - 1]))
    /\ (i = Len(s) \/ ~IsWord(s[i + 1]))

\* re.findall(r"\b[ABCD]\b", norm) on norm[lo..hi]: the matches are single
\* characters, so the matches of a text are those of its halves, in order
RECURSIVE FindIsolated(_, _, _)
FindIsolated(s, lo, hi) ==
    IF lo > hi THEN <<>>
    ELSE IF lo = hi
         THEN IF s[lo] \in AnswerLetters /\ WordBoundaryAround(s, lo)
              THEN <<s[lo]>> ELSE <<>>
         ELSE LET mid == (lo + hi) \div 2
              IN  FindIsolated(s, lo, mid) \o FindIsolated(s, mid + 1, hi)

\* re.findall(r"[ABCD]", norm) on norm[lo..hi]
RECURSIVE FindBare(_, _, _)
FindBare(s, lo, hi) ==
    IF lo > hi THEN <<>>
    ELSE IF lo = hi
         THEN IF s[lo] \in AnswerLetters THEN <<s[lo]>> ELSE <<>>
         ELSE LET mid == (lo + hi) \div 2
              IN  FindBare(s, lo, mid) \o FindBare(s, mid + 1, hi)

\* tokens without the looser second pass
AnswerTokensNoFallback(norm) == FindIsolated(norm, 1, Len(norm))

\* tokens, after the fallback
AnswerTokens(norm) ==
    LET tokens == FindIsolated(norm, 1, Len(norm))
    IN  IF Len(tokens) < NumAnswers THEN FindBare(norm, 1, Len(norm)) ELSE tokens

\* answers = tokens[:80]
Answers(text) == Take(AnswerTokens(Normalize(text)), NumAnswers)

\* parse_answers returns {i + 1: answers[i] for i in range(80)}
ParseAnswersReturn ==
    /\ pc = "parse_answers"
    /\ \E answers \in {Answers(ans_text)} :
           /\ Len(answers) = NumAnswers
           /\ answer_map' = [i \in 1..NumAnswers |-> answers[i]]
    /\ pc' = "figure_dir"
    /\ UNCHANGED <<pdf, ans_text, image_meta, error, excel, set_order>>
    /\ UNCHANGED <<figVars, tableVars, extractVars>>
    /\ UNCHANGED prev_run
    /\ UNCHANGED quizVars

\* parse_answers failing without ending the run.
ParseAnswersRaiseCaught ==
    /\ pc = "parse_answers"
    /\ Len(Answers(ans_text)) /= NumAnswers
    /\ error' = "ValueError"
    /\ pc' = "figure_dir"
    /\ UNCHANGED <<pdf, ans_text, image_meta, answer_map, excel, set_order>>
    /\ UNCHANGED <<figVars, tableVars, extractVars>>
    /\ UNCHANGED prev_run
    /\ UNCHANGED quizVars

\* parse_answers raises ValueError, which main does not catch
ParseAnswersRaise ==
    /\ pc = "parse_answers"
    /\ Len(Answers(ans_text)) /= NumAnswers
    /\ error' = "ValueError"
    /\ pc' = "aborted"
    /\ UNCHANGED <<pdf, ans_text, image_meta, answer_map, excel, set_order>>
    /\ UNCHANGED <<figVars, tableVars, extractVars>>
    /\ UNCHANGED prev_run
    /\ UNCHANGED quizVars

---------------------------------------------------------------------------
(* extract_text_with_subscripts                                            *)
(*                                                                         *)
(* A glyph is [id, text, x0, x1, top, bottom, size]: id is its position in *)
(* page.chars and stands for the identity of the dict, text is a single    *)
(* character.                                                              *)

\* current_line_top = -1 (points)
NoLineTop == -10

\* diff < -3.5 (points)
SuperscriptShift == -35

\* dist > 2.0 (points)
SpaceWidth == 20

\* prev_char = None
NoChar == [id |-> 0]

\* SUBSCRIPT_MAP
SubscriptMap(c) ==
    CASE c = "0" -> "sub0" [] c = "1" -> "sub1" [] c = "2" -> "sub2"
      [] c = "3" -> "sub3" [] c = "4" -> "sub4" [] c = "5" -> "sub5"
      [] c = "6" -> "sub6" [] c = "7" -> "sub7" [] c = "8" -> "sub8"
      [] c = "9" -> "sub9" [] OTHER -> c

\* SUPERSCRIPT_MAP
SuperscriptMap(c) ==
    CASE c = "0" -> "sup0" [] c = "1" -> "sup1" [] c = "2" -> "sup2"
      [] c = "3" -> "sup3" [] c = "4" -> "sup4" [] c = "5" -> "sup5"
      [] c = "6" -> "sup6" [] c = "7" -> "sup7" [] c = "8" -> "sup8"
      [] c = "9" -> "sup9" [] c = "+" -> "sup+" [] c = "-" -> "sup-"
      [] OTHER -> c

\* sizes.count(size)
SizeCount(chars, size) == Cardinality({i \in DOMAIN chars : chars[i].size = size})

\* The sizes max(set(sizes), key=sizes.count) can return: the most frequent ones.
ModeSizes(chars) ==
    {s \in {chars[i].size : i \in DOMAIN chars} :
        \A i \in DOMAIN chars : SizeCount(chars, s) >= SizeCount(chars, chars[i].size)}

\* prev_run when main has not run before
NoRun == [written |-> FALSE, error |-> "none", rows |-> <<>>]

\* The iteration order of the set changing from one run to the next.
ModeSizeOrderPerRun(chars, order) ==
    CHOOSE s \in ModeSizes(chars) :
        \A t \in ModeSizes(chars) :
            IF (order = "ascending") = (prev_run = NoRun) THEN s <= t ELSE s >= t

\* max(set(sizes), key=sizes.count): the first of the most frequent sizes in the
\* iteration order of the set, which is ascending or descending here.
ModeSize(chars, order) ==
    CHOOSE s \in ModeSizes(chars) :
        \A t \in ModeSizes(chars) : IF order = "ascending" THEN s <= t ELSE s >= t

\* a sorts before b under the key: "top_x0" is lambda c: (c['top'], c['x0']),
\* "x0" is lambda c: c['x0'], "top" is lambda x: x['top'], "number" is the
\* column of sort_values("number")
KeyLess(key, a, b) ==
    CASE key = "top_x0" -> a.top < b.top \/ (a.top = b.top /\ a.x0 < b.x0)
      [] key = "x0" -> a.x0 < b.x0
      [] key = "top" -> a.top < b.top
      [] key = "number" -> a.number < b.number

\* c placed into the sorted sequence s after every element that is not greater
InsertSorted(s, c, key) ==
    LET later == {i \in DOMAIN s : KeyLess(key, c, s[i])}
        k == IF later = {} THEN Len(s) + 1
             ELSE CHOOSE i \in later : \A j \in later : i <= j
    IN  SubSeq(s, 1, k - 1) \o <<c>> \o SubSeq(s, k, Len(s))

\* sorted(s, key=...) and list.sort(key=...): a stable sort
RECURSIVE StableSort(_, _)
StableSort(s, key) ==
    IF Len(s) = 0 THEN <<>>
    ELSE InsertSorted(StableSort(SubSeq(s, 1, Len(s) - 1), key), s[Len(s)], key)

\* The glyph joins the current line: not abs(top - current_line_top) > mode_size * 0.5
SameLine(char, line_top, mode) == ~(2 * Abs(char.top - line_top) > mode)

\* is_digit and char['size'] < (mode_size * 0.85)
IsScriptCandidate(char, mode) ==
    /\ char.text \in Digits \cup {"+", "-"}
    /\ 100 * char.size < 85 * mode

\* The decision with the operands of diff exchanged.
ScriptTextReversedDiff(char, prev, mode) ==
    IF IsScriptCandidate(char, mode) /\ prev /= NoChar
    THEN IF prev.bottom - char.bottom < SuperscriptShift
         THEN SuperscriptMap(char.text)
         ELSE SubscriptMap(char.text)
    ELSE char.text

\* The text appended for char, after the sub/superscript decision.
ScriptText(char, prev, mode) ==
    IF IsScriptCandidate(char, mode) /\ prev /= NoChar
    THEN IF char.bottom - prev.bottom < SuperscriptShift
         THEN SuperscriptMap(char.text)
         ELSE SubscriptMap(char.text)
    ELSE char.text

\* The space inserted before char when it is distant from prev.
SpaceBefore(char, prev) ==
    IF prev /= NoChar /\ char.x0 - prev.x1 > SpaceWidth THEN <<" ">> ELSE <<>>

\* for page in pdf.pages, a page without chars: full_text.append("")
PageEmpty ==
    /\ pc = "page"
    /\ xpage <= Len(pdf)
    /\ pdf[xpage].chars = <<>>
    /\ pages_text' = Append(pages_text, <<>>)
    /\ xpage' = xpage + 1
    /\ UNCHANGED <<mainVars, figVars, tableVars>>
    /\ UNCHANGED <<mode_size, sorted_chars, walk_i, lines, current_line_chars,
                   current_line_top, line_i, char_i, line_str, prev_char, page_content>>
    /\ UNCHANGED prev_run
    /\ UNCHANGED quizVars

\* for page in pdf.pages: mode_size, sorted_chars and the start of the grouping
PageStart ==
    /\ pc = "page"
    /\ xpage <= Len(pdf)
    /\ pdf[xpage].chars /= <<>>
    /\ mode_size' = ModeSize(pdf[xpage].chars, set_order)
    /\ sorted_chars' = StableSort(pdf[xpage].chars, "top_x0")
    /\ lines' = <<>>
    /\ current_line_chars' = <<>>
    /\ current_line_top' = NoLineTop
    /\ walk_i' = 1
    /\ pc' = "walk"
    /\ UNCHANGED <<pdf, ans_text, image_meta, answer_map, error, excel, set_order>>
    /\ UNCHANGED <<figVars, tableVars>>
    /\ UNCHANGED <<xpage, pages_text, line_i, char_i, line_str, prev_char, page_content>>
    /\ UNCHANGED prev_run
    /\ UNCHANGED quizVars

\* for char in sorted_chars: the glyph joins the current line or starts a new one
WalkChar ==
    /\ pc = "walk"
    /\ walk_i <= Len(sorted_chars)
    /\ LET char == sorted_chars[walk_i]
       IN  IF current_line_top = NoLineTop
           THEN /\ current_line_top' = char.top
                /\ current_line_chars' = Append(current_line_chars, char)
                /\ lines' = lines
           ELSE IF ~SameLine(char, current_line_top, mode_size)
                THEN /\ lines' = Append(lines, current_line_chars)
                     /\ current_line_chars' = <<char>>
                     /\ current_line_top' = char.top
                ELSE /\ current_line_chars' = Append(current_line_chars, char)
                     /\ UNCHANGED <<lines, current_line_top>>
    /\ walk_i' = walk_i + 1
    /\ UNCHANGED <<mainVars, figVars, tableVars>>
    /\ UNCHANGED <<xpage, pages_text, mode_size, sorted_chars, line_i, char_i,
                   line_str, prev_char, page_content>>
    /\ UNCHANGED prev_run
    /\ UNCHANGED quizVars

\* The end of the grouping loop without the append of the last line.
WalkEndNoFlush ==
    /\ pc = "walk"
    /\ walk_i > Len(sorted_chars)
    /\ page_content' = <<>>
    /\ line_i' = 1
    /\ pc' = "line"
    /\ UNCHANGED <<pdf, ans_text, image_meta, answer_map, error, excel, set_order>>
    /\ UNCHANGED <<figVars, tableVars>>
    /\ UNCHANGED <<xpage, pages_text, mode_size, sorted_chars, walk_i, lines,
                   current_line_chars, current_line_top, char_i, line_str, prev_char>>
    /\ UNCHANGED prev_run
    /\ UNCHANGED quizVars

\* if current_line_chars: lines.append(current_line_chars); page_content = []
WalkEnd ==
    /\ pc = "walk"
    /\ walk_i > Len(sorted_chars)
    /\ lines' = IF current_line_chars /= <<>>
                THEN Append(lines, current_line_chars) ELSE lines
    /\ page_content' = <<>>
    /\ line_i' = 1
    /\ pc' = "line"
    /\ UNCHANGED <<pdf, ans_text, image_meta, answer_map, error, excel, set_order>>
    /\ UNCHANGED <<figVars, tableVars>>
    /\ UNCHANGED <<xpage, pages_text, mode_size, sorted_chars, walk_i,
                   current_line_chars, current_line_top, char_i, line_str, prev_char>>
    /\ UNCHANGED prev_run
    /\ UNCHANGED quizVars

\* for line_chars in lines: line_chars.sort(key=x0); line_str = ""; prev_char = None
LineStart ==
    /\ pc = "line"
    /\ line_i <= Len(lines)
    /\ lines' = [lines EXCEPT ![line_i] = StableSort(@, "x0")]
    /\ line_str' = <<>>
    /\ prev_char' = NoChar
    /\ char_i' = 1
    /\ pc' = "chars"
    /\ UNCHANGED <<pdf, ans_text, image_meta, answer_map, error, excel, set_order>>
    /\ UNCHANGED <<figVars, tableVars>>
    /\ UNCHANGED <<xpage, pages_text, mode_size, sorted_chars, walk_i,
                   current_line_chars, current_line_top, line_i, page_content>>
    /\ UNCHANGED prev_run
    /\ UNCHANGED quizVars

\* for char in line_chars: the space, the sub/superscript decision, line_str += text
NormChar ==
    /\ pc = "chars"
    /\ char_i <= Len(lines[line_i])
    /\ LET char == lines[line_i][char_i]
       IN  /\ line_str' = line_str \o SpaceBefore(char, prev_char)
                                   \o <<ScriptText(char, prev_char, mode_size)>>
           /\ prev_char' = char
    /\ char_i' = char_i + 1
    /\ UNCHANGED <<mainVars, figVars, tableVars>>
    /\ UNCHANGED <<xpage, pages_text, mode_size, sorted_chars, walk_i, lines,
                   current_line_chars, current_line_top, line_i, page_content>>
    /\ UNCHANGED prev_run
    /\ UNCHANGED quizVars

\* page_content.append(line_str)
LineEnd ==
    /\ pc = "chars"
    /\ char_i > Len(lines[line_i])
    /\ page_content' = Append(page_content, line_str)
    /\ line_i' = line_i + 1
    /\ pc' = "line"
    /\ UNCHANGED <<pdf, ans_text, image_meta, answer_map, error, excel, set_order>>
    /\ UNCHANGED <<figVars, tableVars>>
    /\ UNCHANGED <<xpage, pages_text, mode_size, sorted_chars, walk_i, lines,
                   current_line_chars, current_line_top, char_i, line_str, prev_char>>
    /\ UNCHANGED prev_run
    /\ UNCHANGED quizVars

\* full_text.append("\n".join(page_content))
PageEnd ==
    /\ pc = "line"
    /\ line_i > Len(lines)
    /\ pages_text' = Append(pages_text, Join(page_content, <<"\n">>))
    /\ xpage' = xpage + 1
    /\ pc' = "page"
    /\ UNCHANGED <<pdf, ans_text, image_meta, answer_map, error, excel, set_order>>
    /\ UNCHANGED <<figVars, tableVars>>
    /\ UNCHANGED <<mode_size, sorted_chars, walk_i, lines, current_line_chars,
                   current_line_top, line_i, char_i, line_str, prev_char, page_content>>
    /\ UNCHANGED prev_run
    /\ UNCHANGED quizVars

\* return "\n".join(full_text), to parse_questions_with_images
ExtractReturn ==
    /\ pc = "page"
    /\ xpage > Len(pdf)
    /\ full_text' = Join(pages_text, <<"\n">>)
    /\ pc' = "parse_questions"
    /\ UNCHANGED <<pdf, ans_text, image_meta, answer_map, error, excel, set_order>>
    /\ UNCHANGED <<figVars, df, extractVars>>
    /\ UNCHANGED prev_run
    /\ UNCHANGED quizVars

NextExtract ==
    \/ PageEmpty
    \/ PageStart
    \/ WalkChar
    \/ WalkEnd
    \/ LineStart
    \/ NormChar
    \/ LineEnd
    \/ PageEnd
    \/ ExtractReturn

---------------------------------------------------------------------------
(* parse_questions                                                         *)

\* The least element of a non-empty set of integers.
MinOf(S) == CHOOSE x \in S : \A y \in S : x <= y

MaxOf(S) == CHOOSE x \in S : \A y \in S : x >= y

\* test_pdf_text.replace("\r", "\n")
ReplaceCR(text) == [i \in DOMAIN text |-> IF text[i] = "\r" THEN "\n" ELSE text[i]]

\* The position after a greedy \s* that starts at p.
SkipSpaces(s, p) ==
    LET rest == {k \in p..Len(s) : ~IsSpace(s[k])}
    IN  IF rest = {} THEN Len(s) + 1 ELSE MinOf(rest)

\* The position after a greedy \d* that starts at p.
SkipDigits(s, p) ==
    LET rest == {k \in p..Len(s) : s[k] \notin Digits}
    IN  IF rest = {} THEN Len(s) + 1 ELSE MinOf(rest)

\* str.strip()
Strip(s) ==
    LET solid == {k \in DOMAIN s : ~IsSpace(s[k])}
    IN  IF solid = {} THEN <<>> ELSE SubSeq(s, MinOf(solid), MaxOf(solid))

\* re.sub(r"\s*\n\s*", " ", s), from position i on: a run of whitespace that
\* holds a line break becomes one space
RECURSIVE CollapseFrom(_, _)
CollapseFrom(s, i) ==
    IF i > Len(s) THEN <<>>
    ELSE IF ~IsSpace(s[i]) THEN <<s[i]>> \o CollapseFrom(s, i + 1)
    ELSE LET next == SkipSpaces(s, i)
         IN  IF \E j \in i..(next - 1) : s[j] = "\n"
             THEN <<" ">> \o CollapseFrom(s, next)
             ELSE SubSeq(s, i, next - 1) \o CollapseFrom(s, next)

\* re.sub(r"\s*\n\s*", " ", s).strip()
Collapse(s) == Strip(CollapseFrom(s, 1))

\* (?m)^\s*(\d{1,3})\. matches at p: p starts a line, then whitespace, one to
\* three digits and a dot
HeaderAt(s, p) ==
    /\ (p = 1 \/ s[p - 1] = "\n")
    /\ LET k == SkipSpaces(s, p)
           e == SkipDigits(s, k)
       IN  /\ e - k \in 1..3
           /\ e <= Len(s)
           /\ s[e] = "."

\* The matches of block_pat from position pos on, as <<num_str, body>>: a
\* block runs from its header to the next header or to the end of the text.
RECURSIVE BlocksFrom(_, _)
BlocksFrom(s, pos) ==
    LET starts == {p \in pos..Len(s) : HeaderAt(s, p)}
    IN  IF starts = {} THEN <<>>
        ELSE LET p == MinOf(starts)
                 k == SkipSpaces(s, p)
                 e == SkipDigits(s, k)
                 ends == {q \in (e + 1)..Len(s) : HeaderAt(s, q)}
                 q == IF ends = {} THEN Len(s) + 1 ELSE MinOf(ends)
             IN  <<<<SubSeq(s, k, e - 1), SubSeq(s, e + 1, q - 1)>>>> \o BlocksFrom(s, q)

\* mA.start(): re.search(r"\n\s*A\.", body) or re.search(r"\sA\.", body);
\* 0 when neither matches
OptionsStart(body) ==
    LET atLine == {i \in DOMAIN body :
                      /\ body[i] = "\n"
                      /\ LET k == SkipSpaces(body, i + 1)
                         IN  k + 1 <= Len(body) /\ body[k] = "A" /\ body[k + 1] = "."}
        inLine == {i \in DOMAIN body :
                      /\ IsSpace(body[i])
                      /\ i + 2 <= Len(body) /\ body[i + 1] = "A" /\ body[i + 2] = "."}
    IN  IF atLine /= {} THEN MinOf(atLine)
        ELSE IF inLine /= {} THEN MinOf(inLine)
        ELSE 0

\* (?:^|\n)\s*([ABCD])\. matches at p of "\n" + opts_part
OptionAt(t, p) ==
    /\ p <= Len(t)
    /\ t[p] = "\n"
    /\ LET k == SkipSpaces(t, p)
       IN  k + 1 <= Len(t) /\ t[k] \in AnswerLetters /\ t[k + 1] = "."

\* The matches of opt_pat from position pos on, as <<letter, text>>: the text
\* of an option starts after the whitespace that follows its dot and runs to
\* the next line that starts an option, or to the end.
RECURSIVE OptionsFrom(_, _)
OptionsFrom(t, pos) ==
    LET starts == {p \in pos..Len(t) : OptionAt(t, p)}
    IN  IF starts = {} THEN <<>>
        ELSE LET p == MinOf(starts)
                 k == SkipSpaces(t, p)
                 v == SkipSpaces(t, k + 2)
                 ends == {e \in v..Len(t) : OptionAt(t, e)}
                 e == IF ends = {} THEN Len(t) + 1 ELSE MinOf(ends)
             IN  <<<<t[k], SubSeq(t, v, e - 1)>>>> \o OptionsFrom(t, e)

\* opts[letter] after the comprehension and setdefault: the text of the last
\* match for the letter, or ""
OptionText(matches, letter) ==
    LET hits == {i \in DOMAIN matches : matches[i][1] = letter}
    IN  IF hits = {} THEN <<>> ELSE Collapse(matches[MaxOf(hits)][2])

\* answer_map.get(n, "")
AnswerFor(map, n) == IF n \in DOMAIN map THEN map[n] ELSE ""

\* The rows of one block: none when the number is out of range or no option
\* marker is found.
BlockRows(block, map) ==
    LET n == ParseInt(block[1])
        body == Strip(block[2])
        start == OptionsStart(body)
    IN  IF ~(1 <= n /\ n <= MaxQuestionNumber) THEN <<>>
        ELSE IF start = 0 THEN <<>>
        ELSE LET q_text == Strip(SubSeq(body, 1, start - 1))
                 opts_part == Strip(SubSeq(body, start, Len(body)))
                 matches == OptionsFrom(<<"\n">> \o opts_part, 1)
             IN  <<[number |-> n,
                    Question |-> Collapse(q_text),
                    A |-> OptionText(matches, "A"),
                    B |-> OptionText(matches, "B"),
                    C |-> OptionText(matches, "C"),
                    D |-> OptionText(matches, "D"),
                    answer |-> AnswerFor(map, n)]>>

RECURSIVE RowsOf(_, _)
RowsOf(blocks, map) ==
    IF Len(blocks) = 0 THEN <<>>
    ELSE BlockRows(blocks[1], map) \o RowsOf(Tail(blocks), map)

\* rows, after the loop over blocks
QuestionRows(text, map) == RowsOf(BlocksFrom(ReplaceCR(text), 1), map)

\* sorted(set(range(1, 81)) - set(df["number"].tolist()))
MissingNumbers(table) == (1..MaxQuestionNumber) \ {table[i].number : i \in DOMAIN table}

\* The line printed for the missing numbers, if any.
MissingWarning(table) ==
    IF MissingNumbers(table) /= {}
    THEN <<[kind |-> "missing", numbers |-> MissingNumbers(table)]>>
    ELSE <<>>

\* parse_questions returning the rows in document order.
ParseQuestionsReturnUnsorted ==
    /\ pc = "parse_questions"
    /\ \E rs \in {QuestionRows(full_text, answer_map)} :
           /\ rs /= <<>>
           /\ df' = rs
           /\ log' = log \o MissingWarning(rs)
    /\ pc' = "add_figures"
    /\ UNCHANGED <<pdf, ans_text, image_meta, answer_map, error, excel, set_order>>
    /\ UNCHANGED <<figure_dir, files, page_idx, question_locs, loc_i, rows,
                   related_imgs, bbox, q_to_fig>>
    /\ UNCHANGED <<full_text, extractVars>>
    /\ UNCHANGED prev_run
    /\ UNCHANGED quizVars

\* parse_questions returns the rows sorted by number
ParseQuestionsReturn ==
    /\ pc = "parse_questions"
    /\ \E rs \in {QuestionRows(full_text, answer_map)} :
           /\ rs /= <<>>
           /\ \E sorted \in {StableSort(rs, "number")} :
                  /\ df' = sorted
                  /\ log' = log \o MissingWarning(sorted)
    /\ pc' = "add_figures"
    /\ UNCHANGED <<pdf, ans_text, image_meta, answer_map, error, excel, set_order>>
    /\ UNCHANGED <<figure_dir, files, page_idx, question_locs, loc_i, rows,
                   related_imgs, bbox, q_to_fig>>
    /\ UNCHANGED <<full_text, extractVars>>
    /\ UNCHANGED prev_run
    /\ UNCHANGED quizVars

\* With no rows the DataFrame has no column "number": sort_values raises KeyError
ParseQuestionsRaise ==
    /\ pc = "parse_questions"
    /\ QuestionRows(full_text, answer_map) = <<>>
    /\ error' = "KeyError"
    /\ pc' = "aborted"
    /\ UNCHANGED <<pdf, ans_text, image_meta, answer_map, excel, set_order>>
    /\ UNCHANGED <<figVars, tableVars, extractVars>>
    /\ UNCHANGED prev_run
    /\ UNCHANGED quizVars

\* df['Figure'] = df['number'].map(q_to_fig): the path or None of the label,
\* NaN for a number without label
NoFigure == [kind |-> "None"]

NaN == [kind |-> "NaN"]

FigurePath(n) == [kind |-> "path", number |-> n]

FigureFor(map, n) == IF n \in DOMAIN map THEN map[n] ELSE NaN

\* The Figure column and the selection of the eight columns.
AddFigureColumn ==
    /\ pc = "add_figures"
    /\ df' = [i \in DOMAIN df |->
                [number |-> df[i].number, Question |-> df[i].Question,
                 A |-> df[i].A, B |-> df[i].B, C |-> df[i].C, D |-> df[i].D,
                 answer |-> df[i].answer,
                 Figure |-> FigureFor(q_to_fig, df[i].number)]]
    /\ pc' = "write"
    /\ UNCHANGED <<pdf, ans_text, image_meta, answer_map, error, excel, set_order>>
    /\ UNCHANGED <<figVars, full_text, extractVars>>
    /\ UNCHANGED prev_run
    /\ UNCHANGED quizVars

---------------------------------------------------------------------------
(* extract_image_metadata and the page scan of parse_questions_with_images *)
(*                                                                         *)
(* A word is [text, top, bottom], an image [x0, top, x1, bottom], a label  *)
(* (an element of question_locs) [number, top, bottom, page_index] and,    *)
(* once it has been mapped, figure_path.                                   *)

\* q_end = 9999 # End of page
EndOfPage == 9999

\* max(0, min(v, limit))
Clip(v, limit) == Max(0, Min(v, limit))

\* The bounding box of img on page number i (0-based), clipped to the page.
ClipImage(img, page, i) ==
    [page_index |-> i,
     x0 |-> Clip(img.x0, page.width),
     top |-> Clip(img.top, page.height),
     x1 |-> Clip(img.x1, page.width),
     bottom |-> Clip(img.bottom, page.height)]

\* if x1 <= x0 or bottom <= top: continue
ValidBox(box) == ~(box.x1 <= box.x0 \/ box.bottom <= box.top)

\* The metadata of the images imgs[k..] of page number i.
RECURSIVE PageImageMetadata(_, _, _, _)
PageImageMetadata(imgs, page, i, k) ==
    IF k > Len(imgs) THEN <<>>
    ELSE (IF ValidBox(ClipImage(imgs[k], page, i))
          THEN <<ClipImage(imgs[k], page, i)>> ELSE <<>>)
         \o PageImageMetadata(imgs, page, i, k + 1)

\* extract_image_metadata, from page number i (0-based) on
RECURSIVE ImageMetadata(_, _)
ImageMetadata(doc, i) ==
    IF i >= Len(doc) THEN <<>>
    ELSE PageImageMetadata(doc[i + 1].images, doc[i + 1], i, 1) \o ImageMetadata(doc, i + 1)

\* re.match(r"^(\d{1,3})\.", w['text']): one to three digits and a dot
IsLabel(text) ==
    LET e == SkipDigits(text, 1)
    IN  e - 1 \in 1..3 /\ e <= Len(text) /\ text[e] = "."

\* int(m.group(1))
LabelNumber(text) == ParseInt(SubSeq(text, 1, SkipDigits(text, 1) - 1))

\* question_locs before the sort: the labels among words[k..]
RECURSIVE Labels(_, _, _)
Labels(words, i, k) ==
    IF k > Len(words) THEN <<>>
    ELSE (IF /\ IsLabel(words[k].text)
             /\ 1 <= LabelNumber(words[k].text)
             /\ LabelNumber(words[k].text) <= MaxQuestionNumber
          THEN <<[number |-> LabelNumber(words[k].text), top |-> words[k].top,
                  bottom |-> words[k].bottom, page_index |-> i]>>
          ELSE <<>>)
         \o Labels(words, i, k + 1)

\* page_images = [img for img in image_meta if img['page_index'] == page_idx]
PageImages(meta, i) == SelectSeq(meta, LAMBDA img : img.page_index = i)

\* q_end: the top of the next label, or the end of the page
SpanEnd(locs, i) == IF i < Len(locs) THEN locs[i + 1].top ELSE EndOfPage

\* related_imgs of label i: the images with q_start < img['top'] < q_end
RelatedImages(meta, locs, i, page) ==
    SelectSeq(PageImages(meta, page),
              LAMBDA img : locs[i].top < img.top /\ img.top < SpanEnd(locs, i))

\* The box of the first image alone.
UnionBoxFirstOnly(imgs) ==
    [x0 |-> imgs[1].x0, top |-> imgs[1].top, x1 |-> imgs[1].x1, bottom |-> imgs[1].bottom]

\* bbox = (min_x0, min_top, max_x1, max_bottom)
UnionBox(imgs) ==
    [x0 |-> MinOf({imgs[k].x0 : k \in DOMAIN imgs}),
     top |-> MinOf({imgs[k].top : k \in DOMAIN imgs}),
     x1 |-> MaxOf({imgs[k].x1 : k \in DOMAIN imgs}),
     bottom |-> MaxOf({imgs[k].bottom : k \in DOMAIN imgs})]

\* q['figure_path'] = figure_path
WithFigurePath(q, path) ==
    [number |-> q.number, top |-> q.top, bottom |-> q.bottom,
     page_index |-> q.page_index, figure_path |-> path]

\* r.get('figure_path')
FigurePathOf(r) == IF "figure_path" \in DOMAIN r THEN r.figure_path ELSE NoFigure

\* {r['number']: r.get('figure_path') for r in rows}: the last label of a number wins
FigureMap(rs) ==
    [n \in {rs[k].number : k \in DOMAIN rs} |->
        FigurePathOf(rs[MaxOf({k \in DOMAIN rs : rs[k].number = n})])]

\* main: image_meta = extract_image_metadata(TEST_PDF_PATH)
ExtractImageMetadata ==
    /\ pc = "main"
    /\ image_meta' = ImageMetadata(pdf, 0)
    /\ pc' = "parse_answers"
    /\ UNCHANGED <<pdf, ans_text, answer_map, error, excel, set_order>>
    /\ UNCHANGED <<figVars, tableVars, extractVars>>
    /\ UNCHANGED prev_run
    /\ UNCHANGED quizVars

\* if not os.path.exists(FIGURE_DIR): os.makedirs(FIGURE_DIR); rows = []
MakeFigureDir ==
    /\ pc = "figure_dir"
    /\ figure_dir' = TRUE
    /\ rows' = <<>>
    /\ page_idx' = 0
    /\ pc' = "scan"
    /\ UNCHANGED <<pdf, ans_text, image_meta, answer_map, error, excel, set_order>>
    /\ UNCHANGED <<files, question_locs, loc_i, log, related_imgs, bbox, q_to_fig>>
    /\ UNCHANGED <<tableVars, extractVars>>
    /\ UNCHANGED prev_run
    /\ UNCHANGED quizVars

\* for page_idx, page in enumerate(pdf.pages): the labels of the page, sorted by top
ScanPage ==
    /\ pc = "scan"
    /\ page_idx < Len(pdf)
    /\ question_locs' = StableSort(Labels(pdf[page_idx + 1].words, page_idx, 1), "top")
    /\ loc_i' = 1
    /\ pc' = "map"
    /\ UNCHANGED <<pdf, ans_text, image_meta, answer_map, error, excel, set_order>>
    /\ UNCHANGED <<figure_dir, files, page_idx, rows, log, related_imgs, bbox, q_to_fig>>
    /\ UNCHANGED <<tableVars, extractVars>>
    /\ UNCHANGED prev_run
    /\ UNCHANGED quizVars

\* for i, q in enumerate(question_locs): no image falls in the span of label i
MapNoImage ==
    /\ pc = "map"
    /\ loc_i <= Len(question_locs)
    /\ related_imgs' = RelatedImages(image_meta, question_locs, loc_i, page_idx)
    /\ related_imgs' = <<>>
    /\ question_locs' = [question_locs EXCEPT ![loc_i] = WithFigurePath(@, NoFigure)]
    /\ loc_i' = loc_i + 1
    /\ UNCHANGED <<mainVars, tableVars, extractVars>>
    /\ UNCHANGED <<figure_dir, files, page_idx, rows, log, bbox, q_to_fig>>
    /\ UNCHANGED prev_run
    /\ UNCHANGED quizVars

\* for i, q in enumerate(question_locs): the union box is cropped, rendered and saved
RenderFigure ==
    /\ pc = "map"
    /\ loc_i <= Len(question_locs)
    /\ related_imgs' = RelatedImages(image_meta, question_locs, loc_i, page_idx)
    /\ related_imgs' /= <<>>
    /\ bbox' = UnionBox(related_imgs')
    /\ files' = [n \in DOMAIN files \cup {question_locs[loc_i].number} |->
                    IF n = question_locs[loc_i].number
                    THEN [page_index |-> page_idx, region |-> bbox']
                    ELSE files[n]]
    /\ log' = Append(log, [kind |-> "saved", number |-> question_locs[loc_i].number])
    /\ question_locs' = [question_locs EXCEPT ![loc_i] =
                            WithFigurePath(@, FigurePath(@.number))]
    /\ loc_i' = loc_i + 1
    /\ UNCHANGED <<mainVars, tableVars, extractVars>>
    /\ UNCHANGED <<figure_dir, page_idx, rows, q_to_fig>>
    /\ UNCHANGED prev_run
    /\ UNCHANGED quizVars

\* for i, q in enumerate(question_locs): crop, to_image or save raises; the
\* exception is caught and printed
RenderFails ==
    /\ pc = "map"
    /\ loc_i <= Len(question_locs)
    /\ related_imgs' = RelatedImages(image_meta, question_locs, loc_i, page_idx)
    /\ related_imgs' /= <<>>
    /\ bbox' = UnionBox(related_imgs')
    /\ log' = Append(log, [kind |-> "failed", number |-> question_locs[loc_i].number])
    /\ question_locs' = [question_locs EXCEPT ![loc_i] = WithFigurePath(@, NoFigure)]
    /\ loc_i' = loc_i + 1
    /\ UNCHANGED <<mainVars, tableVars, extractVars>>
    /\ UNCHANGED <<figure_dir, files, page_idx, rows, q_to_fig>>
    /\ UNCHANGED prev_run
    /\ UNCHANGED quizVars

\* rows.extend(question_locs)
EndPage ==
    /\ pc = "map"
    /\ loc_i > Len(question_locs)
    /\ rows' = rows \o question_locs
    /\ page_idx' = page_idx + 1
    /\ pc' = "scan"
    /\ UNCHANGED <<pdf, ans_text, image_meta, answer_map, error, excel, set_order>>
    /\ UNCHANGED <<figure_dir, files, question_locs, loc_i, log, related_imgs, bbox,
                   q_to_fig>>
    /\ UNCHANGED <<tableVars, extractVars>>
    /\ UNCHANGED prev_run
    /\ UNCHANGED quizVars

\* q_to_fig = {...}; full_text = extract_text_with_subscripts(pdf_path)
FinishScan ==
    /\ pc = "scan"
    /\ page_idx >= Len(pdf)
    /\ q_to_fig' = FigureMap(rows)
    /\ xpage' = 1
    /\ pages_text' = <<>>
    /\ pc' = "page"
    /\ UNCHANGED <<pdf, ans_text, image_meta, answer_map, error, excel, set_order>>
    /\ UNCHANGED <<figure_dir, files, page_idx, question_locs, loc_i, rows, log,
                   related_imgs, bbox>>
    /\ UNCHANGED <<tableVars, mode_size, sorted_chars, walk_i, lines, current_line_chars,
                   current_line_top, line_i, char_i, line_str, prev_char, page_content>>
    /\ UNCHANGED prev_run
    /\ UNCHANGED quizVars

NextScan ==
    \/ MakeFigureDir
    \/ ScanPage
    \/ MapNoImage
    \/ RenderFigure
    \/ RenderFails
    \/ EndPage
    \/ FinishScan

\* main: df.to_excel(writer, ...) and the images of the rows whose figure exists
WriteExcel ==
    /\ pc = "write"
    /\ excel' = [written |-> TRUE,
                 rows |-> df,
                 images |-> {i \in DOMAIN df :
                                /\ df[i].Figure = FigurePath(df[i].number)
                                /\ df[i].number \in DOMAIN files}]
    /\ pc' = "done"
    /\ UNCHANGED <<pdf, ans_text, image_meta, answer_map, error, set_order>>
    /\ UNCHANGED <<figVars, tableVars, extractVars>>
    /\ UNCHANGED prev_run
    /\ UNCHANGED quizVars

\* OUTPUT_EXCEL_PATH before main writes it
NoExcel == [written |-> FALSE, rows |-> <<>>, images |-> {}]

---------------------------------------------------------------------------
(* Idle values of the variables a function has not touched yet.            *)

IdleFigures ==
    /\ figure_dir = FALSE
    /\ files = <<>>
    /\ page_idx = 0
    /\ question_locs = <<>>
    /\ loc_i = 1
    /\ rows = <<>>
    /\ log = <<>>
    /\ related_imgs = <<>>
    /\ bbox = <<>>
    /\ q_to_fig = <<>>

IdleTable ==
    /\ full_text = <<>>
    /\ df = <<>>

IdleExtract ==
    /\ xpage = 1
    /\ pages_text = <<>>
    /\ mode_size = 0
    /\ sorted_chars = <<>>
    /\ walk_i = 1
    /\ lines = <<>>
    /\ current_line_chars = <<>>
    /\ current_line_top = 0
    /\ line_i = 1
    /\ char_i = 1
    /\ line_str = <<>>
    /\ prev_char = NoChar
    /\ page_content = <<>>

\* The quiz front-end is not running: no dataset, the session state of
\* init_session_state
IdleQuiz ==
    /\ quiz_df = <<>>
    /\ quiz_started = FALSE
    /\ questions = <<>>
    /\ current_index = 0
    /\ user_answers = <<>>
    /\ score = 0
    /\ finished = FALSE
    /\ feedback_mode = FALSE

---------------------------------------------------------------------------
(* parse_answers on answer documents.                                      *)

AnswerUnits ==
    { <<"A", " ">>, <<"FW_B", "FW_SP">>, <<"C">>, <<"D", "\n">>,
      <<"B", "A", "D", " ">>, <<"x", ",">> }

AnswerDocs ==
    { Rep(u1, n1) \o Rep(u2, n2) :
        u1 \in AnswerUnits, u2 \in AnswerUnits,
        n1 \in (NumAnswers - AnswerSlack)..(NumAnswers + AnswerSlack),
        n2 \in 0..AnswerSlack }

InitAnswers ==
    /\ pc = "parse_answers"
    /\ pdf = <<>>
    /\ ans_text \in AnswerDocs
    /\ image_meta = <<>>
    /\ answer_map = <<>>
    /\ error = ""
    /\ excel = NoExcel
    /\ set_order = "ascending"
    /\ IdleFigures /\ IdleTable /\ IdleExtract
    /\ prev_run = NoRun
    /\ IdleQuiz

NextAnswers == ParseAnswersReturn \/ ParseAnswersRaise

SpecAnswers == InitAnswers /\ [][NextAnswers]_vars

---------------------------------------------------------------------------
(* extract_text_with_subscripts on one page of glyphs.                     *)

\* A page holds at most MaxGlyphs glyphs.
MaxGlyphs == 3

\* page.width and page.height of the pages of the model (points)
PageWidth == 612

PageHeight == 792

Glyph(text, x0, x1, top, bottom, size) ==
    [text |-> text, x0 |-> x0, x1 |-> x1, top |-> top, bottom |-> bottom,
     size |-> size]

\* Full-size letters on two lines, a full-size digit whose top is -1.0, and
\* small glyphs lowered by 1.1 or raised by 6.6 against the letter "H", among
\* them the raised digits "2" and "3" side by side.
GlyphShapes ==
    { Glyph("H", 0, 60, 100, 200, 100),
      Glyph("2", 60, 100, 119, 189, 70),
      Glyph("2", 60, 100, 64, 134, 70),
      Glyph("3", 100, 140, 64, 134, 70),
      Glyph("+", 100, 130, 64, 134, 70),
      Glyph("-", 130, 160, 140, 210, 70),
      Glyph("n", 100, 130, 119, 189, 70),
      Glyph("x", 0, 60, 250, 350, 100),
      Glyph("3", 0, 60, -10, 90, 100),
      Glyph("O", 60, 120, 40, 140, 100) }

\* page.chars: the glyphs with their positions in the list as identities
WithIds(shapes) ==
    [i \in DOMAIN shapes |->
        [id |-> i, text |-> shapes[i].text, x0 |-> shapes[i].x0, x1 |-> shapes[i].x1,
         top |-> shapes[i].top, bottom |-> shapes[i].bottom, size |-> shapes[i].size]]

Page(chars, words, images, height) ==
    [width |-> PageWidth, height |-> height, chars |-> chars, words |-> words,
     images |-> images]

InitLines ==
    /\ pc = "page"
    /\ \E shapes \in SeqUpTo(GlyphShapes, MaxGlyphs) :
           pdf = <<Page(WithIds(shapes), <<>>, <<>>, PageHeight)>>
    /\ ans_text = <<>>
    /\ image_meta = <<>>
    /\ answer_map = <<>>
    /\ error = ""
    /\ excel = NoExcel
    /\ set_order \in {"ascending", "descending"}
    /\ IdleFigures /\ IdleTable /\ IdleExtract
    /\ prev_run = NoRun
    /\ IdleQuiz

SpecLines == InitLines /\ [][NextExtract]_vars

\* A line of four full-size letters further down the page
BodyLine ==
    <<Glyph("T", 0, 60, 400, 500, 100), Glyph("e", 60, 120, 400, 500, 100),
      Glyph("x", 120, 180, 400, 500, 100), Glyph("t", 180, 240, 400, 500, 100)>>

\* extract_text_with_subscripts on a page that holds the body line and up to
\* MaxGlyphs more glyphs, followed by a page without glyphs
InitScripts ==
    /\ pc = "page"
    /\ \E shapes \in SeqUpTo(GlyphShapes, MaxGlyphs) :
           pdf = <<Page(WithIds(shapes \o BodyLine), <<>>, <<>>, PageHeight),
                   Page(<<>>, <<>>, <<>>, PageHeight)>>
    /\ ans_text = <<>>
    /\ image_meta = <<>>
    /\ answer_map = <<>>
    /\ error = ""
    /\ excel = NoExcel
    /\ set_order \in {"ascending", "descending"}
    /\ IdleFigures /\ IdleTable /\ IdleExtract
    /\ prev_run = NoRun
    /\ IdleQuiz

SpecScripts == InitScripts /\ [][NextExtract]_vars

---------------------------------------------------------------------------
(* parse_questions and the Figure column on question documents.            *)

\* A question document holds at most MaxLines lines.
MaxLines == 4

\* The answer key of the model: B, C, D, A, B, ... for 1, 2, 3, 4, 5, ...
AnswerKey ==
    [i \in 1..NumAnswers |->
        CASE i % 4 = 0 -> "A" [] i % 4 = 1 -> "B" [] i % 4 = 2 -> "C" [] OTHER -> "D"]

\* "1. q", "A. x", "B. y", "2. q A. x", "81. q A. z", " 01. r", "2.A. x", ""
\* and "3. q\rA. w"
QuestionLines ==
    { <<"1", ".", " ", "q">>,
      <<"A", ".", " ", "x">>,
      <<"B", ".", " ", "y">>,
      <<"2", ".", " ", "q", " ", "A", ".", " ", "x">>,
      <<"8", "1", ".", " ", "q", " ", "A", ".", " ", "z">>,
      <<" ", "0", "1", ".", " ", "r">>,
      <<"2", ".", "A", ".", " ", "x">>,
      <<>>,
      <<"3", ".", " ", "q", "\r", "A", ".", " ", "w">> }

QuestionDocs == {Join(ls, <<"\n">>) : ls \in SeqUpTo(QuestionLines, MaxLines)}

\* q_to_fig when the page scan found no label, and when it found the labels
\* 1 (with a figure) and 2 (without)
FigureMaps == {<<>>, <<FigurePath(1), NoFigure>>}

InitQuestions ==
    /\ pc = "parse_questions"
    /\ pdf = <<>>
    /\ ans_text = <<>>
    /\ image_meta = <<>>
    /\ answer_map = AnswerKey
    /\ error = ""
    /\ excel = NoExcel
    /\ set_order = "ascending"
    /\ figure_dir = TRUE
    /\ files = <<>>
    /\ page_idx = 0
    /\ question_locs = <<>>
    /\ loc_i = 1
    /\ rows = <<>>
    /\ log = <<>>
    /\ related_imgs = <<>>
    /\ bbox = <<>>
    /\ q_to_fig \in FigureMaps
    /\ full_text \in QuestionDocs
    /\ df = <<>>
    /\ IdleExtract
    /\ prev_run = NoRun
    /\ IdleQuiz

NextQuestions == ParseQuestionsReturn \/ ParseQuestionsRaise \/ AddFigureColumn

SpecQuestions == InitQuestions /\ [][NextQuestions]_vars

---------------------------------------------------------------------------
(* The page scan of parse_questions_with_images on pages of words and      *)
(* images.                                                                 *)

\* The first page holds at most MaxWords words and MaxImages images.
MaxWords == 2

MaxImages == 2

\* The height of a large-format page (points)
TallPageHeight == 10000

Word(text, top) == [text |-> text, top |-> top, bottom |-> top + 12]

\* "1." and "2." at two heights, "81.", "3.5" and "q"
WordShapes ==
    { Word(<<"1", ".">>, 100),
      Word(<<"2", ".">>, 300),
      Word(<<"2", ".">>, 100),
      Word(<<"8", "1", ".">>, 300),
      Word(<<"3", ".", "5">>, 500),
      Word(<<"q">>, 300) }

Image(x0, top, x1, bottom) == [x0 |-> x0, top |-> top, x1 |-> x1, bottom |-> bottom]

\* Two images between the heights 100 and 300, one above 100, one exactly at
\* 300, one that starts left of the page, and one at the bottom of a tall page.
ImageShapes ==
    { Image(50, 150, 200, 250),
      Image(100, 200, 300, 400),
      Image(10, 50, 90, 300),
      Image(20, 300, 120, 350),
      Image(-5, 500, 60, 600),
      Image(0, 9999, 700, 10050) }

\* A second page with the label "3." and an image below it.
TailPage ==
    Page(<<>>, <<Word(<<"3", ".">>, 100)>>, <<Image(30, 150, 130, 250)>>, PageHeight)

InitFigures ==
    /\ pc = "figure_dir"
    /\ \E words \in SeqUpTo(WordShapes, MaxWords),
          images \in SeqUpTo(ImageShapes, MaxImages),
          height \in {PageHeight, TallPageHeight} :
           pdf = <<Page(<<>>, words, images, height), TailPage>>
    /\ ans_text = <<>>
    /\ image_meta = ImageMetadata(pdf, 0)
    /\ answer_map = AnswerKey
    /\ error = ""
    /\ excel = NoExcel
    /\ set_order = "ascending"
    /\ IdleFigures /\ IdleTable /\ IdleExtract
    /\ prev_run = NoRun
    /\ IdleQuiz

SpecFigures == InitFigures /\ [][NextScan]_vars

---------------------------------------------------------------------------
(* main on whole documents.                                                *)

\* TEST.pdf holds at most MaxPages pages.
MaxPages == 2

\* The glyphs of text lines set in one size: line i at top 20.0 * i, each
\* character 6.0 wide, spaces included.
Typeset(textlines) ==
    LET glyphs == UNION {{[line |-> i, col |-> j] : j \in DOMAIN textlines[i]} :
                            i \in DOMAIN textlines}
        index(g) == Cardinality({h \in glyphs :
                        h.line < g.line \/ (h.line = g.line /\ h.col <= g.col)})
    IN  [n \in 1..Cardinality(glyphs) |->
            LET g == CHOOSE h \in glyphs : index(h) = n
            IN  [id |-> n, text |-> textlines[g.line][g.col],
                 x0 |-> 60 * (g.col - 1), x1 |-> 60 * g.col,
                 top |-> 200 * g.line, bottom |-> 200 * g.line + 100, size |-> 100]]

\* "2. q" / "A. x" / "1. r" / "A. y", with the labels 2 and 1, an image below
\* each label
TwoQuestionsPage ==
    Page(Typeset(<< <<"2", ".", " ", "q">>, <<"A", ".", " ", "x">>,
                    <<"1", ".", " ", "r">>, <<"A", ".", " ", "y">> >>),
         <<Word(<<"2", ".">>, 200), Word(<<"q">>, 200), Word(<<"1", ".">>, 600)>>,
         <<Image(50, 300, 200, 400), Image(60, 700, 300, 780)>>,
         PageHeight)

\* "3. s A. z", with the label 3 and no image
InlineOptionPage ==
    Page(Typeset(<< <<"3", ".", " ", "s", " ", "A", ".", " ", "z">> >>),
         <<Word(<<"3", ".">>, 200)>>, <<>>, PageHeight)

\* A page without glyphs, words or images
BlankPage == Page(<<>>, <<>>, <<>>, PageHeight)

\* "1. t" / "A. u", with the label 1 and an image below it
RepeatedNumberPage ==
    Page(Typeset(<< <<"1", ".", " ", "t">>, <<"A", ".", " ", "u">> >>),
         <<Word(<<"1", ".">>, 200)>>, <<Image(40, 250, 140, 350)>>, PageHeight)

\* "4. v" without options, with the label 4 and an image below it
NoOptionsPage ==
    Page(Typeset(<< <<"4", ".", " ", "v">> >>),
         <<Word(<<"4", ".">>, 200)>>, <<Image(40, 250, 140, 350)>>, PageHeight)

\* "5. H2 A. xyzw" on one line: five full-size glyphs and five small ones, the
\* "2" lowered by 1.1 against the "H"; the label 5 and no image
TiedSizesPage ==
    Page(WithIds(<<Glyph("5", 0, 60, 200, 300, 100), Glyph(".", 60, 120, 200, 300, 100),
                   Glyph("H", 180, 240, 200, 300, 100), Glyph("2", 240, 280, 219, 289, 70),
                   Glyph("A", 340, 400, 200, 300, 100), Glyph(".", 400, 460, 200, 300, 100),
                   Glyph("x", 520, 560, 230, 300, 70), Glyph("y", 560, 600, 230, 300, 70),
                   Glyph("z", 600, 640, 230, 300, 70), Glyph("w", 640, 680, 230, 300, 70)>>),
         <<Word(<<"5", ".">>, 200)>>, <<>>, PageHeight)

\* "1. t" / "A. 1.5": the label 1 with an image below it, and further down
\* the word "1.5", which reads as a label 1 too, with no image below it
DecimalWordPage ==
    Page(Typeset(<< <<"1", ".", " ", "t">>, <<"A", ".", " ", "1", ".", "5">> >>),
         <<Word(<<"1", ".">>, 200), Word(<<"t">>, 200), Word(<<"A", ".">>, 400),
           Word(<<"1", ".", "5">>, 400)>>,
         <<Image(40, 250, 140, 350)>>, PageHeight)

MainPages ==
    {TwoQuestionsPage, InlineOptionPage, BlankPage, RepeatedNumberPage, NoOptionsPage,
     TiedSizesPage, DecimalWordPage}

\* 80 separated letters, 79 separated letters, and 81 letters without separators
MainAnswerDocs ==
    { Rep(<<"A", " ">>, NumAnswers), Rep(<<"A", " ">>, NumAnswers - 1),
      Rep(<<"C">>, NumAnswers + 1) }

Init ==
    /\ pc = "main"
    /\ pdf \in SeqUpTo(MainPages, MaxPages)
    /\ ans_text \in MainAnswerDocs
    /\ image_meta = <<>>
    /\ answer_map = <<>>
    /\ error = ""
    /\ excel = NoExcel
    /\ set_order \in {"ascending", "descending"}
    /\ IdleFigures /\ IdleTable /\ IdleExtract
    /\ prev_run = NoRun
    /\ IdleQuiz

Next ==
    \/ ExtractImageMetadata
    \/ ParseAnswersReturn
    \/ ParseAnswersRaise
    \/ NextScan
    \/ NextExtract
    \/ ParseQuestionsReturn
    \/ ParseQuestionsRaise
    \/ AddFigureColumn
    \/ WriteExcel

Spec == Init /\ [][Next]_vars

\* main is run once more on the same TEST.pdf and ANWSER.pdf, in the same
\* build of Python; the figure directory, the figure files and the
\* spreadsheet of the run before are still on disk.
Rerun ==
    /\ pc \in {"done", "aborted"}
    /\ prev_run = NoRun
    /\ prev_run' = [written |-> (pc = "done"), error |-> error, rows |-> df]
    /\ pc' = "main"
    /\ image_meta' = <<>>
    /\ answer_map' = <<>>
    /\ error' = ""
    /\ page_idx' = 0
    /\ question_locs' = <<>>
    /\ loc_i' = 1
    /\ rows' = <<>>
    /\ log' = <<>>
    /\ related_imgs' = <<>>
    /\ bbox' = <<>>
    /\ q_to_fig' = <<>>
    /\ full_text' = <<>>
    /\ df' = <<>>
    /\ xpage' = 1
    /\ pages_text' = <<>>
    /\ mode_size' = 0
    /\ sorted_chars' = <<>>
    /\ walk_i' = 1
    /\ lines' = <<>>
    /\ current_line_chars' = <<>>
    /\ current_line_top' = 0
    /\ line_i' = 1
    /\ char_i' = 1
    /\ line_str' = <<>>
    /\ prev_char' = NoChar
    /\ page_content' = <<>>
    /\ UNCHANGED <<pdf, ans_text, set_order, figure_dir, files, excel>>
    /\ UNCHANGED quizVars

NextRerun ==
    \/ Next
    \/ Rerun

\* The pages of the documents main is run twice on
RerunPages == {TwoQuestionsPage, BlankPage, NoOptionsPage, TiedSizesPage}

InitRerun ==
    /\ pc = "main"
    /\ pdf \in SeqUpTo(RerunPages, MaxPages)
    /\ ans_text \in MainAnswerDocs
    /\ image_meta = <<>>
    /\ answer_map = <<>>
    /\ error = ""
    /\ excel = NoExcel
    /\ set_order \in {"ascending", "descending"}
    /\ IdleFigures /\ IdleTable /\ IdleExtract
    /\ prev_run = NoRun
    /\ IdleQuiz

SpecRerun == InitRerun /\ [][NextRerun]_vars

---------------------------------------------------------------------------
(* The quiz front-end of src/quiz_app.py: one action per button, each a    *)
(* run of the script's main on the session state.                          *)

\* The dataset holds at most MaxRows rows.
MaxRows == 2

\* n_questions = min(20, len(df))
QuizLength == 20

\* options = ['A', 'B', 'C', 'D']
Options == {"A", "B", "C", "D"}

\* choice when no option of the radio button is selected
NoChoice == "None"

\* The rows of the datasets: a question and its correct answer
QuizRows == {[Question |-> "q1", answer |-> "A"], [Question |-> "q2", answer |-> "B"]}

\* df.sample(n=n).to_dict('records'): n rows of the dataset, no row twice, in any order
Samples(records, n) ==
    {[k \in 1..n |-> records[f[k]]] :
        f \in {g \in [1..n -> DOMAIN records] : \A a, b \in 1..n : a /= b => g[a] /= g[b]}}

\* The value of the radio button: the user's selection, which is never empty
\* once an answer is recorded for the question
Choices(answers, idx) ==
    IF idx \in DOMAIN answers THEN Options ELSE Options \cup {NoChoice}

\* submit_answer: user_answers[idx] = selected_option
SubmitAnswer(answers, idx, option) ==
    [i \in DOMAIN answers \cup {idx} |-> IF i = idx THEN option ELSE answers[i]]

\* finish_quiz: the number of questions whose recorded answer is the correct one
Correct(qs, answers) ==
    Cardinality({i \in 0..(Len(qs) - 1) :
                    i \in DOMAIN answers /\ answers[i] = qs[i + 1].answer})

\* The quiz page is drawn: q = st.session_state.questions[idx] exists
QuizPage ==
    /\ quiz_started
    /\ ~finished
    /\ 0 <= current_index
    /\ current_index < Len(questions)

\* if idx < total - 1: next_question() else: finish_quiz(), on the answers given
Advance(answers) ==
    IF current_index < Len(questions) - 1
    THEN /\ current_index' = current_index + 1
         /\ UNCHANGED <<finished, score>>
    ELSE /\ finished' = TRUE
         /\ score' = Correct(questions, answers)
         /\ UNCHANGED current_index

\* "Start New Quiz (20 Questions)": start_quiz(df)
StartQuiz ==
    /\ ~quiz_started
    /\ questions' \in Samples(quiz_df, Min(QuizLength, Len(quiz_df)))
    /\ quiz_started' = TRUE
    /\ current_index' = 0
    /\ user_answers' = <<>>
    /\ score' = 0
    /\ finished' = FALSE
    /\ UNCHANGED <<quiz_df, feedback_mode>>
    /\ UNCHANGED <<mainVars, figVars, tableVars, extractVars, prev_run>>

\* "Next" / "Submit Quiz": a warning without a choice; otherwise the answer is
\* recorded, a correct one moves on or finishes, a wrong one shows the feedback
NextOrSubmit ==
    /\ QuizPage
    /\ ~feedback_mode
    /\ \E choice \in Choices(user_answers, current_index) :
          IF choice = NoChoice
          THEN UNCHANGED <<user_answers, current_index, finished, score, feedback_mode>>
          ELSE /\ user_answers' = SubmitAnswer(user_answers, current_index, choice)
               /\ IF choice = questions[current_index + 1].answer
                  THEN /\ Advance(user_answers')
                       /\ UNCHANGED feedback_mode
                  ELSE /\ feedback_mode' = TRUE
                       /\ UNCHANGED <<current_index, finished, score>>
    /\ UNCHANGED <<quiz_df, quiz_started, questions>>
    /\ UNCHANGED <<mainVars, figVars, tableVars, extractVars, prev_run>>

\* "Continue" in feedback mode
Continue ==
    /\ QuizPage
    /\ feedback_mode
    /\ feedback_mode' = FALSE
    /\ Advance(user_answers)
    /\ UNCHANGED <<quiz_df, quiz_started, questions, user_answers>>
    /\ UNCHANGED <<mainVars, figVars, tableVars, extractVars, prev_run>>

\* "Previous": if choice: submit_answer(choice); prev_question()
Previous ==
    /\ QuizPage
    /\ current_index > 0
    /\ ~feedback_mode
    /\ \E choice \in Choices(user_answers, current_index) :
          user_answers' = IF choice = NoChoice THEN user_answers
                          ELSE SubmitAnswer(user_answers, current_index, choice)
    /\ current_index' = current_index - 1
    /\ UNCHANGED <<quiz_df, quiz_started, questions, score, finished, feedback_mode>>
    /\ UNCHANGED <<mainVars, figVars, tableVars, extractVars, prev_run>>

\* "Restart Quiz" on the result screen
Restart ==
    /\ quiz_started
    /\ finished
    /\ quiz_started' = FALSE
    /\ finished' = FALSE
    /\ UNCHANGED <<quiz_df, questions, current_index, user_answers, score, feedback_mode>>
    /\ UNCHANGED <<mainVars, figVars, tableVars, extractVars, prev_run>>

\* main after load_data returned a dataset and init_session_state ran
InitQuiz ==
    /\ pc = "quiz"
    /\ pdf = <<>>
    /\ ans_text = <<>>
    /\ image_meta = <<>>
    /\ answer_map = <<>>
    /\ error = ""
    /\ excel = NoExcel
    /\ set_order = "ascending"
    /\ IdleFigures /\ IdleTable /\ IdleExtract
    /\ prev_run = NoRun
    /\ quiz_df \in SeqUpTo(QuizRows, MaxRows)
    /\ quiz_started = FALSE
    /\ questions = <<>>
    /\ current_index = 0
    /\ user_answers = <<>>
    /\ score = 0
    /\ finished = FALSE
    /\ feedback_mode = FALSE

NextQuiz ==
    \/ StartQuiz
    \/ NextOrSubmit
    \/ Continue
    \/ Previous
    \/ Restart

SpecQuiz == InitQuiz /\ [][NextQuiz]_vars

---------------------------------------------------------------------------
(* Properties.                                                             *)

\* The places <<line, position>> of the reconstructed lines.
C5_Places == UNION {{<<l, k>> : k \in DOMAIN lines[l]} : l \in DOMAIN lines}

\* C5: when a page with glyphs has been read, every glyph of the page is at
\* exactly one place of the reconstructed lines, every place holds a glyph of
\* the page, and the glyphs of a line are in non-decreasing x0 order.
C5_LinePartition ==
    (pc \in {"page", "parse_questions"} /\ xpage > 1 /\ pdf[xpage - 1].chars /= <<>>) =>
        /\ \A i \in DOMAIN pdf[xpage - 1].chars :
              Cardinality({p \in C5_Places :
                              lines[p[1]][p[2]] = pdf[xpage - 1].chars[i]}) = 1
        /\ \A p \in C5_Places : lines[p[1]][p[2]] \in Range(pdf[xpage - 1].chars)
        /\ \A p \in C5_Places :
              p[2] > 1 => lines[p[1]][p[2] - 1].x0 <= lines[p[1]][p[2]].x0

\* A page was split into two lines, one holding two glyphs that page.chars
\* lists from right to left.
C5_Witness ==
    /\ pc = "page"
    /\ xpage = 2
    /\ Len(lines) = 2
    /\ \E l \in DOMAIN lines :
          /\ Len(lines[l]) = 2
          /\ lines[l][1].id > lines[l][2].id
          /\ lines[l][1].x0 < lines[l][2].x0

C6_SubForms ==
    <<"sub0", "sub1", "sub2", "sub3", "sub4", "sub5", "sub6", "sub7", "sub8", "sub9">>

C6_SupForms ==
    <<"sup0", "sup1", "sup2", "sup3", "sup4", "sup5", "sup6", "sup7", "sup8", "sup9">>

\* What the claim says is emitted for glyph c that follows glyph p on its line
\* (p = NoChar for the first glyph of the line).
C6_Expected(c, p, dominant) ==
    IF c.text \in Digits \cup {"+", "-"} /\ 100 * c.size < 85 * dominant /\ p /= NoChar
    THEN IF c.bottom - p.bottom < -35
         THEN CASE c.text = "+" -> "sup+"
                [] c.text = "-" -> "sup-"
                [] OTHER -> C6_SupForms[DigitValue(c.text) + 1]
         ELSE IF c.text \in Digits THEN C6_SubForms[DigitValue(c.text) + 1] ELSE c.text
    ELSE c.text

\* C6: each step of the loop over a line appends, after at most one space, the
\* glyph's text re-encoded as the claim says: for a digit or sign smaller than
\* 0.85 x the dominant size that has a glyph before it on the line, the
\* superscript form when its bottom is more than 3.5 above that glyph's bottom
\* and the subscript form (digits only) otherwise; unchanged in every other case.
C6_ScriptNormalizer ==
    [][(pc = "chars" /\ char_i' = char_i + 1) =>
          /\ Len(line_str') \in {Len(line_str) + 1, Len(line_str) + 2}
          /\ line_str'[Len(line_str')] =
                C6_Expected(lines[line_i][char_i],
                            IF char_i > 1 THEN lines[line_i][char_i - 1] ELSE NoChar,
                            mode_size)]_vars

\* A line "H", raised small "2": the digit was emitted as a superscript.
C6_Witness ==
    /\ pc = "chars"
    /\ line_str = <<"H", "sup2">>

\* C1: every row of the table parse_questions returns has a number in 1..80
\* and no two rows have the same number.
C1_NumbersUniqueInRange ==
    pc \in {"add_figures", "write"} =>
        /\ \A i \in DOMAIN df : df[i].number \in 1..80
        /\ \A i, j \in DOMAIN df : i /= j => df[i].number /= df[j].number

\* C4: parse_questions ends without an exception for every document, and the
\* numbers of 1..80 without a row, if there are any, are reported as a warning.
C4_MissingNumbersReported ==
    pc /= "parse_questions" =>
        /\ error = ""
        /\ \E absent \in {(1..80) \ {df[i].number : i \in DOMAIN df}} :
              absent /= {} => [kind |-> "missing", numbers |-> absent] \in Range(log)

\* C10: the table handed to the writer is in ascending order of number, every
\* row has exactly the eight columns, the option and Figure columns hold a
\* text or a null, and the answer is the letter of the answer key for the number.
C10_TableSortedComplete ==
    pc = "write" =>
        /\ \A i \in DOMAIN df :
              /\ DOMAIN df[i] = {"number", "Question", "A", "B", "C", "D", "answer", "Figure"}
              /\ df[i].answer = answer_map[df[i].number]
              /\ df[i].Figure \in {NaN, NoFigure, FigurePath(df[i].number)}
        /\ \A i \in DOMAIN df : i > 1 => df[i - 1].number <= df[i].number

\* The document lists question 2 before question 1; the table has question 1
\* first, with its figure, an option D that is absent and its answer.
C10_Witness ==
    /\ pc = "write"
    /\ Len(df) = 2
    /\ full_text[1] = "2"
    /\ df[1].number = 1 /\ df[2].number = 2
    /\ df[1].Figure = FigurePath(1)
    /\ df[1].D = <<>>
    /\ df[1].answer = "B"

\* C7: when label i of the page's labels, sorted by top, has been mapped, the
\* images attributed to it are exactly the images of its own page whose top
\* lies strictly after the label's top and, unless the label is the last of
\* the page, before the next label's top.
C7_ImageAttribution ==
    (pc = "map" /\ loc_i > 1) =>
        \E i \in {loc_i - 1} :
            Range(related_imgs) =
                {img \in Range(image_meta) :
                    /\ img.page_index = question_locs[i].page_index
                    /\ question_locs[i].top < img.top
                    /\ (i < Len(question_locs) => img.top < question_locs[i + 1].top)}

\* C8: when images were attributed to the label just mapped, the region to
\* crop is the smallest box that holds all of them: no side is inside any of
\* them and each side is a side of one of them; the file saved holds that region.
C8_UnionBoundingBox ==
    (pc = "map" /\ loc_i > 1 /\ related_imgs /= <<>>) =>
        /\ \A k \in DOMAIN related_imgs :
              /\ bbox.x0 <= related_imgs[k].x0
              /\ bbox.top <= related_imgs[k].top
              /\ bbox.x1 >= related_imgs[k].x1
              /\ bbox.bottom >= related_imgs[k].bottom
        /\ \E k \in DOMAIN related_imgs : bbox.x0 = related_imgs[k].x0
        /\ \E k \in DOMAIN related_imgs : bbox.top = related_imgs[k].top
        /\ \E k \in DOMAIN related_imgs : bbox.x1 = related_imgs[k].x1
        /\ \E k \in DOMAIN related_imgs : bbox.bottom = related_imgs[k].bottom
        /\ question_locs[loc_i - 1].figure_path /= NoFigure =>
              files[question_locs[loc_i - 1].number] =
                  [page_index |-> page_idx, region |-> bbox]

\* Two images were attributed to a label, neither of which spans the region,
\* while the document holds a third image; the figure was saved.
C8_Witness ==
    /\ pc = "map"
    /\ loc_i > 1
    /\ Len(related_imgs) = 2
    /\ Len(image_meta) = 3
    /\ bbox.x0 < related_imgs[2].x0
    /\ bbox.bottom > related_imgs[1].bottom
    /\ question_locs[loc_i - 1].figure_path = FigurePath(question_locs[loc_i - 1].number)

\* The letter a character of the answer document stands for ("" for none).
C2_Letter(c) ==
    CASE c \in {"A", "FW_A"} -> "A" [] c \in {"B", "FW_B"} -> "B"
      [] c \in {"C", "FW_C"} -> "C" [] c \in {"D", "FW_D"} -> "D"
      [] OTHER -> ""

C2_Separator(c) == c \in {" ", "FW_SP", "\n", ",", "."}

C2_BarePositions == {i \in DOMAIN ans_text : C2_Letter(ans_text[i]) /= ""}

C2_IsolatedPositions ==
    {i \in C2_BarePositions :
        /\ (i = 1 \/ C2_Separator(ans_text[i - 1]))
        /\ (i = Len(ans_text) \/ C2_Separator(ans_text[i + 1]))}

C2_TokenPositions ==
    IF Cardinality(C2_IsolatedPositions) >= 80
    THEN C2_IsolatedPositions ELSE C2_BarePositions

\* C2: once parse_answers has ended, with the tokens being the isolated letters
\* when there are at least 80 of them and every bare letter otherwise: if there
\* are at least 80 tokens the mapping has exactly the keys 1..80 and key i is
\* the i-th token of the document; if there are fewer the run ended with the
\* parse error and there is no mapping.
C2_AnswerKeyParser ==
    pc /= "parse_answers" =>
        \E P \in {C2_TokenPositions} :
            IF Cardinality(P) >= 80
            THEN /\ error = ""
                 /\ DOMAIN answer_map = 1..80
                 /\ \A j \in P :
                        \E rank \in {Cardinality({k \in P : k <= j})} :
                            rank <= 80 => answer_map[rank] = C2_Letter(ans_text[j])
            ELSE /\ error = "ValueError"
                 /\ pc = "aborted"
                 /\ answer_map = <<>>

\* The fallback was needed and produced the mapping.
C2_Witness ==
    /\ pc = "figure_dir"
    /\ Cardinality(C2_IsolatedPositions) < 80
    /\ DOMAIN answer_map = 1..80


\* Number of letters of the answer text, halfwidth or fullwidth
C3_LetterCount ==
    Cardinality({i \in DOMAIN ans_text :
                    ans_text[i] \in {"A", "B", "C", "D", "FW_A", "FW_B", "FW_C", "FW_D"}})

\* No question is segmented, no figure directory or figure exists, nothing is
\* scanned and no spreadsheet is written
C3_NothingStarted ==
    /\ ~figure_dir
    /\ DOMAIN files = {}
    /\ page_idx = 0 /\ rows = <<>> /\ log = <<>> /\ q_to_fig = <<>>
    /\ pages_text = <<>> /\ full_text = <<>> /\ df = <<>>
    /\ ~excel.written

\* C3: an answer text of fewer than 80 letters aborts the run with the parse
\* error (ValueError) as soon as the answers are parsed, and as long as the
\* answers are not parsed successfully (all 80 numbers mapped) no question is
\* segmented, the figure directory is not created, no figure is rendered and
\* no spreadsheet is written.
C3_AnswersParsedFirst ==
    /\ (C3_LetterCount < NumAnswers /\ pc \notin {"main", "parse_answers"})
          => (pc = "aborted" /\ error = "ValueError")
    /\ (error = "ValueError") => (pc = "aborted" /\ answer_map = <<>>)
    /\ (DOMAIN answer_map /= 1..NumAnswers) => C3_NothingStarted

\* A run on a document with pages, aborted by the parse error of a 79-letter
\* answer text
C3_Witness ==
    /\ pc = "aborted"
    /\ error = "ValueError"
    /\ C3_LetterCount = NumAnswers - 1
    /\ Len(pdf) >= 1
    /\ Len(image_meta) = Len(pdf)

\* Positions of the log entries of failed figures
C9_Failed == {k \in DOMAIN log : log[k].kind = "failed"}

\* Number of labels (numbers 1 to 80) on the first n pages of the document
RECURSIVE C9_LabelsUpTo(_, _)
C9_LabelsUpTo(doc, n) ==
    IF n = 0 THEN 0
    ELSE C9_LabelsUpTo(doc, n - 1)
         + Cardinality({k \in DOMAIN doc[n].words :
                            /\ IsLabel(doc[n].words[k].text)
                            /\ LabelNumber(doc[n].words[k].text) \in 1..MaxQuestionNumber})

\* The scan of the pages for figures is over
C9_ScanOver ==
    /\ answer_map /= <<>>
    /\ pc \notin {"main", "parse_answers", "figure_dir", "scan", "map"}

\* The labels mapped so far: those of the pages scanned and those of the
\* current page before loc_i
C9_Mapped ==
    Range(rows) \cup
        (IF pc = "map" THEN {question_locs[k] : k \in 1..(loc_i - 1)} ELSE {})

\* C9: once the figure of a label has failed, a label of that number has an
\* empty figure path, the run has no error and is never aborted, and when the
\* scan is over every label of every page has been collected for the table.
C9_FigureFailureIsolated ==
    C9_Failed /= {} =>
        /\ \A k \in C9_Failed :
              \E q \in C9_Mapped : q.number = log[k].number /\ q.figure_path = NoFigure
        /\ error = ""
        /\ pc /= "aborted"
        /\ C9_ScanOver => Len(rows) = C9_LabelsUpTo(pdf, Len(pdf))

\* The columns of a row other than Figure
C11_NonImage(r) ==
    [number |-> r.number, Question |-> r.Question, A |-> r.A, B |-> r.B, C |-> r.C,
     D |-> r.D, answer |-> r.answer]

C12_Blocks == BlocksFrom(ReplaceCR(full_text), 1)

\* The trimmed body holds "A." right after a whitespace character
C12_HasMarker(body) ==
    \E t \in {Strip(body)} :
        \E i \in 2..(Len(t) - 1) : IsSpace(t[i - 1]) /\ t[i] = "A" /\ t[i + 1] = "."

\* The blocks that are to produce a row
C12_Kept ==
    SelectSeq(C12_Blocks,
              LAMBDA b : ParseInt(b[1]) \in 1..80 /\ C12_HasMarker(b[2]))

\* C12: once the segmenter has ended on a document with at least one block,
\* it has ended without error and the table has one row for every block whose
\* number is in 1..80 and whose body holds an option marker, and no other row:
\* for every number as many rows as there are such blocks.
C12_RowPerMarkedBlock ==
    (pc /= "parse_questions" /\ C12_Blocks /= <<>>) =>
        \E kept \in {C12_Kept} :
            /\ error = ""
            /\ pc /= "aborted"
            /\ Len(df) = Len(kept)
            /\ \A n \in 0..999 :
                  Cardinality({i \in DOMAIN df : df[i].number = n})
                      = Cardinality({k \in DOMAIN kept : ParseInt(kept[k][1]) = n})

\* C13: in every step of the walk over the sorted glyphs after the first, with
\* the anchor being the first glyph of the current line: the glyph is appended
\* to the current line if twice |glyph.top - anchor.top| is at most the
\* dominant size, and otherwise the current line is closed and the glyph
\* starts the next line.
C13_JoinsWithinHalfSize ==
    [][(pc = "walk" /\ walk_i > 1 /\ walk_i' = walk_i + 1) =>
          \E char \in {sorted_chars[walk_i]} :
              \E anchor \in {current_line_chars[1]} :
                  IF 2 * Abs(char.top - anchor.top) <= mode_size
                  THEN /\ lines' = lines
                       /\ current_line_chars' = Append(current_line_chars, char)
                  ELSE /\ lines' = Append(lines, current_line_chars)
                       /\ current_line_chars' = <<char>>]_vars

\* C14: a figure file, once saved for a number, stays the same region whatever
\* label is mapped later, and in the final table the row of a number with a
\* saved figure file has that file's path as its Figure.
C14_SavedFigureKept ==
    /\ [](pc \in {"write", "done"} =>
            \A i \in DOMAIN df :
                df[i].number \in DOMAIN files => df[i].Figure = FigurePath(df[i].number))
    /\ [][\A n \in DOMAIN files : n \in DOMAIN files' /\ files'[n] = files[n]]_vars

\* A digit smaller than 0.85 x the dominant size
C15_SmallDigit(g) == g.text \in Digits /\ 100 * g.size < 85 * mode_size

\* The position in the line where the run of small digits that share the
\* bottom of the glyph at position k starts
C15_RunStart(line, k) ==
    MinOf({j \in 1..k : \A m \in j..k : /\ C15_SmallDigit(line[m])
                                        /\ line[m].bottom = line[k].bottom})

\* C15: in the step that emits a small digit which is not the first of its run
\* of small digits with one bottom, the run following a full-size glyph, the
\* digit is emitted in the script form of the run's first digit: superscript
\* when the run is more than 3.5 above the bottom of the full-size glyph,
\* subscript otherwise.
C15_RunClassifiedUniformly ==
    [][(/\ pc = "chars"
        /\ char_i' = char_i + 1
        /\ C15_SmallDigit(lines[line_i][char_i])
        /\ C15_RunStart(lines[line_i], char_i) \in 2..(char_i - 1)
        /\ ~C15_SmallDigit(lines[line_i][C15_RunStart(lines[line_i], char_i) - 1])
        /\ 100 * lines[line_i][C15_RunStart(lines[line_i], char_i) - 1].size
              >= 85 * mode_size)
       => \E c \in {lines[line_i][char_i]} :
            \E p \in {lines[line_i][C15_RunStart(lines[line_i], char_i) - 1]} :
                line_str'[Len(line_str')] =
                    IF c.bottom - p.bottom < -35
                    THEN C6_SupForms[DigitValue(c.text) + 1]
                    ELSE C6_SubForms[DigitValue(c.text) + 1]]_vars

\* C16: while the quiz is started and not finished the current index is at
\* least 0 and less than the number of quiz questions; once it is finished the
\* score is the number of questions whose recorded answer is the correct
\* answer, and at most the number of quiz questions.
C16_CurrentQuestionExists ==
    /\ (quiz_started /\ ~finished) =>
          (0 <= current_index /\ current_index < Len(questions))
    /\ (quiz_started /\ finished) =>
          /\ score = Cardinality({i \in DOMAIN user_answers :
                                     /\ i + 1 \in DOMAIN questions
                                     /\ user_answers[i] = questions[i + 1].answer})
          /\ score <= Len(questions)

====
